---- MODULE Spec2Model ----
\* A model of cca_zoo.deep.Wrapper (src/cca_zoo/deep.py): the data partitioning
\* and batch-size adjustment of process_training_data, the epoch loop of fit with
\* early stopping and best-snapshot selection, and the calls made on a wrapper
\* afterwards (predict_corr, transform_view, predict_view, recon_loss).
\*
\* A view is a sequence of rows with one feature column; a row value is an
\* integer.  Means and centred values are exact fractions <<numerator,
\* denominator>> in lowest terms (the code computes them in floating point).
\* Row indices are the code's, 0..S-1; row i of a view v is v[i + 1].
EXTENDS Integers, Sequences, FiniteSets

VARIABLES
    pc,                    \* where the wrapper is in its life
    latent_dims,           \* self.latent_dims
    batch_size,            \* self.batch_size (adjusted by process_training_data)
    requested_batch_size,  \* the batch_size argument of __init__
    epoch_num,             \* self.epoch_num
    patience,              \* self.patience
    method,                \* self.method
    both_encoders,         \* self.both_encoders
    args,                  \* the views passed to fit / process_training_data
    all_inds,              \* local of process_training_data, after the shuffle
    train_inds,            \* local of process_training_data
    val_inds,              \* local of process_training_data
    dataset_means,         \* self.dataset_means
    dataset_list_train,    \* self.dataset_list_train
    dataset_list_val,      \* self.dataset_list_val
    attrs,                 \* the instance attributes set after __init__
    model,                 \* self.model's parameters
    best_model,            \* local best_model of fit
    min_val_loss,          \* local of fit
    epochs_no_improve,     \* local of fit
    early_stop,            \* local of fit
    all_train_loss,        \* local of fit
    all_val_loss,          \* local of fit
    epoch,                 \* the loop variable of fit
    trained_params,        \* history: the live parameters right after each trained epoch
    cca,                   \* self.cca
    train_correlations,    \* self.train_correlations
    result                 \* the outcome of the last call made on the wrapper

vars ==
    <<pc, latent_dims, batch_size, requested_batch_size, epoch_num, patience,
      method, both_encoders, args, all_inds, train_inds, val_inds, dataset_means,
      dataset_list_train, dataset_list_val, attrs, model, best_model,
      min_val_loss, epochs_no_improve, early_stop, all_train_loss,
      all_val_loss, epoch, trained_params, cca, train_correlations, result>>

configVars ==
    <<latent_dims, requested_batch_size, epoch_num, patience, method,
      both_encoders, args>>

dataVars ==
    <<all_inds, train_inds, val_inds, dataset_means, dataset_list_train, dataset_list_val>>

loopVars ==
    <<model, best_model, min_val_loss, epochs_no_improve, early_stop,
      all_train_loss, all_val_loss, epoch, trained_params>>

\* ------------------------------------------------------------------ bounds

\* Largest number of rows of a view given to process_training_data on its own.
MaxS == 4
\* Largest row value.
MaxVal == 1
\* Largest latent_dims.
MaxLatent == 2
\* Largest requested batch size.
MaxRequestedBatch == 2
\* The batch-size loop is followed up to this batch size.
MaxBatch == 6
\* Largest epoch_num.
MaxEpochs == 3
\* Largest patience.
MaxPatience == 2
\* Validation losses are drawn from 0..MaxLoss.
MaxLoss == 2

\* The value of an attribute or local that has not been assigned.
Unset == "unset"

\* No call has been made on the wrapper yet.
NoCall == [call |-> "none"]

\* ------------------------------------------------------------- arithmetic

Abs(n) == IF n < 0 THEN 0 - n ELSE n

RECURSIVE Gcd(_, _)
Gcd(a, b) == IF b = 0 THEN a ELSE Gcd(b, a % b)

\* numpy's nan: the mean of no rows, and whatever is computed from it.
NaN == <<0, 0>>

\* The fraction n/d (d >= 0) in lowest terms; nan when d = 0.
Frac(n, d) ==
    IF d = 0 THEN NaN
    ELSE LET g == Gcd(Abs(n), d)
         IN  <<n \div g, d \div g>>

RECURSIVE SeqSum(_)
SeqSum(s) == IF s = <<>> THEN 0 ELSE Head(s) + SeqSum(Tail(s))

\* dataset[inds]: the rows of a view at the given indices, in that order.
Rows(dataset, inds) == [k \in 1..Len(inds) |-> dataset[inds[k] + 1]]

\* rows.mean(axis=0); nan for an empty block of rows.
Mean(rows) == Frac(SeqSum(rows), Len(rows))

\* rows - m, the mean m broadcast over the rows.
Centre(rows, m) == [k \in 1..Len(rows) |-> Frac(rows[k] * m[2] - m[1], m[2])]

\* Python's round(num/den, 0): to the nearest integer, a tie to the even one.
PyRound(num, den) ==
    LET q == num \div den
        r == num % den
    IN  IF 2 * r < den THEN q
        ELSE IF 2 * r > den THEN q + 1
        ELSE IF q % 2 = 0 THEN q ELSE q + 1

\* ------------------------------------------------- process_training_data

num_subjects == Len(args[1])

\* The orders np.random.shuffle can leave np.arange(n) in.
Shuffles(n) ==
    {p \in [1..n -> 0..(n - 1)] : \A i, j \in 1..n : p[i] = p[j] => i = j}

ShufflesOf == [n \in 0..(MaxS + 1) |-> Shuffles(n)]

\* The split point without the rounding: int(0.8 * num_subjects).
SplitPointTruncated(n) == (8 * n) \div 10

\* int(round(0.8 * num_subjects, 0))
SplitPoint(n) == PyRound(8 * n, 10)

\* np.split(all_inds, [k])
NpSplit(inds, k) ==
    <<SubSeq(inds, 1, k), SubSeq(inds, k + 1, Len(inds))>>

\* The mean stored in self.dataset_means for a view.
StoredMean(dataset, inds) == Mean(Rows(dataset, inds))

\* The mean subtracted from the train and validation rows of a view.
SubtractedMean(dataset, inds) == Mean(dataset)

\* The loop condition off by one: a last batch one row short passes.
BatchTooSmallOffByOne(n, bs, ld) == n % bs < ld - 1

\* The condition of the batch-size loop.
BatchTooSmall(n, bs, ld) == n % bs < ld

\* Lines 60-70: shuffle, split, store the means and the centred subsets.
Split ==
    /\ pc = "new"
    /\ \E shuffled \in ShufflesOf[num_subjects] :
         LET parts == NpSplit(shuffled, SplitPoint(num_subjects))
         IN  /\ all_inds' = shuffled
             /\ train_inds' = parts[1]
             /\ val_inds' = parts[2]
             /\ dataset_means' =
                    [i \in 1..Len(args) |-> StoredMean(args[i], parts[1])]
             /\ dataset_list_train' =
                    [i \in 1..Len(args) |->
                        Centre(Rows(args[i], parts[1]),
                               SubtractedMean(args[i], parts[1]))]
             /\ dataset_list_val' =
                    [i \in 1..Len(args) |->
                        Centre(Rows(args[i], parts[2]),
                               SubtractedMean(args[i], parts[1]))]
    /\ attrs' = attrs \cup {"dataset_list_train", "dataset_list_val", "dataset_means"}
    /\ pc' = "adjust"
    /\ UNCHANGED <<configVars, batch_size, loopVars, cca, train_correlations, result>>

\* Lines 74-75: one iteration of the batch-size loop.
AdjustStep ==
    /\ pc = "adjust"
    /\ BatchTooSmall(num_subjects, batch_size, latent_dims)
    /\ batch_size < MaxBatch
    /\ batch_size' = batch_size + 1
    /\ UNCHANGED <<pc, configVars, dataVars, attrs, loopVars, cca,
                   train_correlations, result>>

\* Line 74: the loop condition is false and process_training_data returns.
AdjustExit ==
    /\ pc = "adjust"
    /\ ~BatchTooSmall(num_subjects, batch_size, latent_dims)
    /\ pc' = "returned"
    /\ UNCHANGED <<batch_size, configVars, dataVars, attrs, loopVars, cca,
                   train_correlations, result>>

\* -------------------------------------------------------------------- fit

\* len(DataLoader(dataset, batch_size=bs)) for a dataset of n rows.
NumBatches(n, bs) == (n + bs - 1) \div bs

\* The parameters of a freshly constructed network (lines 91-106).  Parameter
\* values are named by the number of update_weights steps that produced them.
NewModel == [params |-> 0, dtype |-> "float32"]

\* copy.deepcopy(self.model.state_dict())
StateDict(m) == m

\* self.model.double()
Double(m) == [m EXCEPT !.dtype = "float64"]

\* self.model.load_state_dict(sd): the values of sd, in the live model's dtype.
LoadStateDict(m, sd) == [m EXCEPT !.params = sd.params]

\* train_epoch: one update_weights step per batch of the train loader.
TrainEpoch(m, batches) == [m EXCEPT !.params = @ + batches]

\* The improvement test with <= : an equal loss replaces the snapshot.
ImprovedOrEqual(loss, best) == loss <= best

\* Line 127: the validation loss improves on the best seen.
Improved(loss, best) == loss < best

\* The early stopping condition with > : the stop comes one epoch late.
PatienceExceeded(count, p) == count > p

\* Line 136: the early stopping condition.
PatienceReached(count, p) == count = p

\* The restore outside the patience test: every epoch that did not improve
\* loads the best snapshot.
RestoreAlways(live, best, stop) == LoadStateDict(live, best)

\* Lines 136-139: the live model after an epoch that did not improve.
ModelAfterNoImprovement(live, best, stop) ==
    IF stop THEN LoadStateDict(live, best) ELSE live

\* The mean train loss of an epoch comes from the network and is only logged
\* and plotted; one value stands for it.
TrainLosses == {0}

TrainBatches == NumBatches(Len(dataset_list_train[1]), batch_size)
ValBatches == NumBatches(Len(dataset_list_val[1]), batch_size)

\* The outcomes of a call: an exception (its type, the name it could not
\* find), None, or a value; each with the number of forward passes of the
\* network made before the call ended.
Raised(error, name, forwards) ==
    [kind |-> "raised", error |-> error, name |-> name, forwards |-> forwards]

ReturnedNone(forwards) == [kind |-> "none", forwards |-> forwards]

Returned(value, forwards) ==
    [kind |-> "value", value |-> value, forwards |-> forwards]

\* Lines 81-116 of fit, after process_training_data has returned: the loaders,
\* the network, the first snapshot (taken before .double()) and the loop state.
FitBuild ==
    /\ pc = "returned"
    /\ model' = Double(NewModel)
    /\ best_model' = StateDict(NewModel)
    /\ attrs' = attrs \cup {"model"}
    /\ min_val_loss' = latent_dims
    /\ epochs_no_improve' = 0
    /\ early_stop' = FALSE
    /\ all_train_loss' = <<>>
    /\ all_val_loss' = <<>>
    /\ epoch' = 0
    /\ pc' = "epoch"
    /\ UNCHANGED <<configVars, batch_size, dataVars, trained_params, cca,
                   train_correlations, result>>

\* Lines 118-142: one trained epoch with validation loss `loss`.
EpochRun ==
    /\ pc = "epoch"
    /\ epoch < epoch_num
    /\ early_stop = FALSE
    /\ TrainBatches > 0
    /\ ValBatches > 0
    /\ \E loss \in 0..MaxLoss, epoch_train_loss \in TrainLosses :
         LET trained == TrainEpoch(model, TrainBatches)
         IN  /\ trained_params' = Append(trained_params, trained)
             /\ IF Improved(loss, min_val_loss)
                THEN /\ min_val_loss' = loss
                     /\ best_model' = StateDict(trained)
                     /\ epochs_no_improve' = 0
                     /\ early_stop' = early_stop
                     /\ model' = trained
                ELSE /\ min_val_loss' = min_val_loss
                     /\ best_model' = best_model
                     /\ epochs_no_improve' = epochs_no_improve + 1
                     /\ early_stop' =
                            PatienceReached(epochs_no_improve + 1, patience)
                     /\ model' =
                            ModelAfterNoImprovement(
                                trained, best_model,
                                PatienceReached(epochs_no_improve + 1, patience))
             /\ all_train_loss' = Append(all_train_loss, epoch_train_loss)
             /\ all_val_loss' = Append(all_val_loss, loss)
    /\ epoch' = epoch + 1
    /\ UNCHANGED <<pc, configVars, batch_size, dataVars, attrs, cca,
                   train_correlations, result>>

\* Lines 118-119: an iteration of the loop after early stopping does nothing.
EpochSkip ==
    /\ pc = "epoch"
    /\ epoch < epoch_num
    /\ early_stop = TRUE
    /\ epoch' = epoch + 1
    /\ UNCHANGED <<pc, configVars, batch_size, dataVars, attrs, model,
                   best_model, min_val_loss, epochs_no_improve, early_stop,
                   all_train_loss, all_val_loss, trained_params, cca,
                   train_correlations, result>>

\* Lines 160 and 171: a loader with no batch makes the epoch's mean loss a
\* division by zero, which leaves fit.  The validation loader is empty
\* whenever the split leaves no validation row; the train epoch has run by then.
EpochAbort ==
    /\ pc = "epoch"
    /\ epoch < epoch_num
    /\ early_stop = FALSE
    /\ TrainBatches = 0 \/ ValBatches = 0
    /\ model' = IF TrainBatches = 0 THEN model
                ELSE TrainEpoch(model, TrainBatches)
    /\ result' = [call |-> "fit",
                   outcome |-> Raised("ZeroDivisionError", "", TrainBatches)]
    /\ pc' = "aborted"
    /\ UNCHANGED <<configVars, batch_size, dataVars, attrs, best_model,
                   min_val_loss, epochs_no_improve, early_stop, all_train_loss,
                   all_val_loss, epoch, trained_params, cca, train_correlations>>

\* ----------------------------------------------------------- predict_corr

\* The latent codes of a forward pass: the centred views that were encoded
\* and the parameters that encoded them.
Codes(encoded, m) == [input |-> encoded, params |-> m.params]

\* Line 174: the supplied views centred with the stored means.
CentredViews(views, means) ==
    [i \in 1..Len(views) |-> Centre(views[i], means[i])]

\* Line 175: the views the test loader is built from.
TestDataset(dataset_list_test) == dataset_list_train

\* CCA(n_components).fit(z_x, z_y): the alignment fit on the given codes.
CcaFit(codes) == [fit_on |-> codes]

\* Line 201: the correlations of the codes as transformed by the alignment.
Correlations(codes, alignment) == [of |-> codes, by |-> alignment]

\* predict_corr(*views, train): the outcome of the call, self.cca after it and
\* whether self.cca is set after it.
PredictCorr(views, train) ==
    LET kept == [cca |-> cca, has_cca |-> "cca" \in attrs]
    IN
    IF "dataset_means" \notin attrs
    THEN [outcome |-> Raised("AttributeError", "dataset_means", 0),
          after |-> kept]
    ELSE
      LET encoded == TestDataset(CentredViews(views, dataset_means))
          batches == NumBatches(Len(encoded[1]), batch_size)
      IN  IF method = "DVCCA" /\ ~both_encoders
          THEN [outcome |-> ReturnedNone(0), after |-> kept]
          ELSE
            LET codes == Codes(encoded, model)
            IN  IF train
                THEN [outcome |->
                          Returned(Correlations(codes, CcaFit(codes)), batches),
                      after |-> [cca |-> CcaFit(codes), has_cca |-> TRUE]]
                ELSE IF "cca" \notin attrs
                THEN [outcome |-> Raised("AttributeError", "cca", batches),
                      after |-> kept]
                ELSE [outcome |-> Returned(Correlations(codes, cca), batches),
                      after |-> kept]

\* Lines 143-151: the loop is over; fit the alignment where the method has
\* two encoders, and return self.  The passes of the network made by fit are
\* those of every trained epoch (its train and validation batches) and of the
\* predict_corr call.
FitReturn ==
    /\ pc = "epoch"
    /\ epoch = epoch_num
    /\ IF method = "DCCAE" \/ (method = "DVCCA" /\ both_encoders)
       THEN LET r == PredictCorr(args, TRUE)
            IN  /\ cca' = r.after.cca
                /\ train_correlations' = r.outcome.value
                /\ attrs' = attrs \cup {"cca", "train_correlations"}
       ELSE UNCHANGED <<cca, train_correlations, attrs>>
    /\ result' =
           [call |-> "fit",
            outcome |->
                Returned("self",
                         Len(all_val_loss) * (TrainBatches + ValBatches)
                         + (IF method = "DCCAE"
                               \/ (method = "DVCCA" /\ both_encoders)
                            THEN PredictCorr(args, TRUE).outcome.forwards
                            ELSE 0))]
    /\ pc' = "fitted"
    /\ UNCHANGED <<configVars, batch_size, dataVars, loopVars>>

\* No call is running on the wrapper.
Idle == pc \in {"new", "fitted", "aborted"}

\* Views a caller hands to the wrapper besides the views it was fit on.
NewViews == {<<<<1, 0>>, <<0, 1>>>>}

\* A call of predict_corr(view_a, view_b, train=...).
PredictCorrCall ==
    /\ Idle
    /\ \E views \in {args} \cup NewViews, train \in BOOLEAN :
         LET r == PredictCorr(views, train)
         IN  /\ result' = [call |-> "predict_corr", views |-> views,
                           train |-> train, outcome |-> r.outcome]
             /\ cca' = r.after.cca
             /\ attrs' = IF r.after.has_cca THEN attrs \cup {"cca"} ELSE attrs
    /\ UNCHANGED <<pc, configVars, batch_size, dataVars, loopVars,
                   train_correlations>>

\* ------------------------------- transform_view, predict_view, recon_loss

\* An optional view argument: None, or the rows given.
None == [given |-> FALSE, rows |-> <<>>]
Some(rows) == [given |-> TRUE, rows |-> rows]

\* transform_view(X_new, Y_new), lines 204-227.  No statement of the class
\* assigns self.X_mean or self.Y_mean.
TransformView(X_new, Y_new) ==
    IF X_new.given /\ "X_mean" \notin attrs
    THEN Raised("AttributeError", "X_mean", 0)
    ELSE IF Y_new.given /\ "Y_mean" \notin attrs
    THEN Raised("AttributeError", "Y_mean", 0)
    ELSE IF ~X_new.given /\ ~Y_new.given
    THEN ReturnedNone(0)
    ELSE Returned([latent_a |-> X_new.given, latent_b |-> Y_new.given],
                  (IF X_new.given THEN 1 ELSE 0) + (IF Y_new.given THEN 1 ELSE 0))

\* predict_view(X_new, Y_new), lines 229-245: line 230 unpacks the pair that
\* transform_view returns; each latent that is not None is decoded once.
PredictView(X_new, Y_new) ==
    LET t == TransformView(X_new, Y_new)
    IN  IF t.kind = "raised" THEN t
        ELSE IF t.kind = "none" THEN Raised("TypeError", "", 0)
        ELSE Returned([X_pred |-> TRUE, Y_pred |-> TRUE],
                      t.forwards + (IF X_new.given THEN 1 ELSE 0)
                                 + (IF Y_new.given THEN 1 ELSE 0))

\* recon_loss(X_new, Y_new), lines 247-267.
ReconLoss(X_new, Y_new) ==
    IF "X_mean" \notin attrs THEN Raised("AttributeError", "X_mean", 0)
    ELSE IF "Y_mean" \notin attrs THEN Raised("AttributeError", "Y_mean", 0)
    ELSE Returned([recon_loss_x |-> TRUE, recon_loss_y |-> TRUE], 1)

TransformViewCall ==
    /\ Idle
    /\ \E X_new \in {None, Some(args[1])}, Y_new \in {None, Some(args[2])} :
         result' = [call |-> "transform_view", X_new |-> X_new, Y_new |-> Y_new,
                    outcome |-> TransformView(X_new, Y_new)]
    /\ UNCHANGED <<pc, configVars, batch_size, dataVars, attrs, loopVars, cca,
                   train_correlations>>

PredictViewCall ==
    /\ Idle
    /\ \E X_new \in {None, Some(args[1])}, Y_new \in {None, Some(args[2])} :
         result' = [call |-> "predict_view", X_new |-> X_new, Y_new |-> Y_new,
                    outcome |-> PredictView(X_new, Y_new)]
    /\ UNCHANGED <<pc, configVars, batch_size, dataVars, attrs, loopVars, cca,
                   train_correlations>>

ReconLossCall ==
    /\ Idle
    /\ result' = [call |-> "recon_loss", X_new |-> Some(args[1]),
                  Y_new |-> Some(args[2]),
                  outcome |-> ReconLoss(Some(args[1]), Some(args[2]))]
    /\ UNCHANGED <<pc, configVars, batch_size, dataVars, attrs, loopVars, cca,
                   train_correlations>>

\* ------------------------------------------------------------ construction

Views(n) == [1..n -> 0..MaxVal]

\* Lines 33-56: the state after __init__, before any call.
Constructed ==
    /\ pc = "new"
    /\ latent_dims \in 1..MaxLatent
    /\ requested_batch_size \in 1..MaxRequestedBatch
    /\ batch_size = requested_batch_size
    /\ epoch_num \in 1..MaxEpochs
    /\ patience \in 1..MaxPatience
    /\ method \in {"DCCAE", "DVCCA"}
    /\ both_encoders \in BOOLEAN
    /\ all_inds = Unset
    /\ train_inds = Unset
    /\ val_inds = Unset
    /\ dataset_means = Unset
    /\ dataset_list_train = Unset
    /\ dataset_list_val = Unset
    /\ attrs = {}
    /\ model = Unset
    /\ best_model = Unset
    /\ min_val_loss = Unset
    /\ epochs_no_improve = Unset
    /\ early_stop = Unset
    /\ all_train_loss = Unset
    /\ all_val_loss = Unset
    /\ epoch = Unset
    /\ trained_params = <<>>
    /\ cca = Unset
    /\ train_correlations = Unset
    /\ result = NoCall

\* process_training_data called on its own with one view of 1..MaxS rows.
InitData ==
    /\ Constructed
    /\ epoch_num = 1
    /\ patience = 1
    /\ method = "DCCAE"
    /\ both_encoders = TRUE
    /\ \E n \in 1..MaxS : args \in {<<v>> : v \in Views(n)}

NextData ==
    \/ Split
    \/ AdjustStep
    \/ AdjustExit

SpecData == InitData /\ [][NextData]_vars

\* The pairs of views fit is called with.
FitViews ==
    { <<<<0, 1>>, <<1, 0>>>>,
      <<<<0, 1, 1>>, <<1, 0, 0>>>>,
      <<<<1, 1, 1>>, <<0, 1, 0>>>> }

\* fit called on a fresh wrapper, and nothing else.
InitFit ==
    /\ Constructed
    /\ args \in FitViews

NextFit ==
    \/ Split
    \/ AdjustStep
    \/ AdjustExit
    \/ FitBuild
    \/ EpochRun
    \/ EpochSkip
    \/ EpochAbort
    \/ FitReturn

SpecFit == InitFit /\ [][NextFit]_vars

\* The life of a wrapper: fit, and the other methods called before or after it.
Init == InitFit

Next ==
    \/ Split
    \/ AdjustStep
    \/ AdjustExit
    \/ FitBuild
    \/ EpochRun
    \/ EpochSkip
    \/ EpochAbort
    \/ FitReturn
    \/ PredictCorrCall
    \/ TransformViewCall
    \/ PredictViewCall
    \/ ReconLossCall

Spec == Init /\ [][Next]_vars

\* ----------------------------------------------------------------- claims

\* The elements of a sequence.
Range(s) == {s[k] : k \in 1..Len(s)}

SetMin(S) == CHOOSE x \in S : \A y \in S : x <= y
SetMax(S) == CHOOSE x \in S : \A y \in S : x >= y

\* fit is in its epoch loop, at the end of an epoch, or has returned.
LoopStarted == pc \in {"epoch", "fitted"}

\* Epochs are numbered 1..n here in the order they ran (the code's epoch e - 1).
\* The best validation loss seen before epoch e, the sentinel included.
BestSeenBefore(e) ==
    SetMin({latent_dims} \cup {all_val_loss[k] : k \in 1..(e - 1)})

\* The last epoch whose validation loss improved on the best seen; 0 when no
\* epoch did and the snapshot is still the one taken before the first epoch.
LastImprovement ==
    SetMax({0} \cup {e \in 1..Len(all_val_loss) :
                        all_val_loss[e] < BestSeenBefore(e)})

\* The parameter values right after epoch e; before the first epoch for 0.
ParamsAfter(e) == IF e = 0 THEN NewModel.params ELSE trained_params[e].params

\* C1: the loop is early-stopped exactly when the validation loss has failed to
\* improve on the best seen for `patience` epochs in a row; it stops at the
\* epoch numbered (last improvement) + patience, the live model then holds the
\* parameters of the snapshot taken at the last improvement, and no epoch is
\* trained after that (the loss histories stay at that length).
C1_EarlyStopping ==
    LoopStarted =>
        LET n == Len(all_val_loss)
        IN  /\ Len(all_train_loss) = n
            /\ Len(trained_params) = n
            /\ ~early_stop => n - LastImprovement < patience
            /\ early_stop =>
                /\ n = LastImprovement + patience
                /\ model.params = ParamsAfter(LastImprovement)
                /\ best_model.params = ParamsAfter(LastImprovement)

\* C1 witness: fit has returned after an early stop that followed an improving
\* epoch, with at least one iteration of the loop skipped after the stop.
C1_Witness ==
    /\ pc = "fitted"
    /\ early_stop = TRUE
    /\ LastImprovement >= 1
    /\ epoch > Len(all_val_loss)
    /\ model.params # trained_params[Len(trained_params)].params

\* C2: while the loop has not early-stopped, and when fit returns without an
\* early stop after all epoch_num epochs, the live parameters are those the last
\* trained epoch produced; the best snapshot has not been loaded.
C2_ConvergedKeepsLastEpoch ==
    (LoopStarted /\ early_stop = FALSE) =>
        /\ Len(trained_params) >= 1 =>
               model.params = trained_params[Len(trained_params)].params
        /\ Len(trained_params) = 0 => model.params = NewModel.params
        /\ pc = "fitted" => Len(trained_params) = epoch_num

\* C2 witness: fit returned without early stopping and the live parameters
\* differ from the best snapshot.
C2_Witness ==
    /\ pc = "fitted"
    /\ early_stop = FALSE
    /\ epochs_no_improve >= 1
    /\ model.params # best_model.params

\* C10: at the end of every epoch the best snapshot holds the parameters of the
\* earliest epoch that reached the least validation loss so far, when that loss
\* is below the sentinel latent_dims; otherwise the snapshot is the untrained
\* one, min_val_loss is latent_dims and an early stop restores the untrained
\* parameters.  The counter is the number of epochs since the snapshot changed.
C10_BestSnapshot ==
    LoopStarted =>
        LET n == Len(all_val_loss)
            least == SetMin({latent_dims} \cup Range(all_val_loss))
        IN  IF least < latent_dims
            THEN LET first == SetMin({e \in 1..n : all_val_loss[e] = least})
                 IN  /\ best_model.params = trained_params[first].params
                     /\ min_val_loss = least
                     /\ epochs_no_improve = n - first
            ELSE /\ best_model = StateDict(NewModel)
                 /\ min_val_loss = latent_dims
                 /\ epochs_no_improve = n
                 /\ early_stop => model.params = NewModel.params

\* C10 witness: fit has returned and the least validation loss, below the
\* sentinel, was reached by two epochs.
C10_Witness ==
    /\ pc = "fitted"
    /\ \E e1, e2 \in 1..Len(all_val_loss) :
         /\ e1 < e2
         /\ all_val_loss[e1] = all_val_loss[e2]
         /\ all_val_loss[e1] < latent_dims
         /\ \A k \in 1..Len(all_val_loss) : all_val_loss[k] >= all_val_loss[e1]

\* C3: when process_training_data returns, the last batch is not shorter than
\* latent_dims (S % batch_size >= latent_dims), and the batch size is never
\* below the requested one.
C3_EffectiveBatchSize ==
    /\ pc = "returned" => num_subjects % batch_size >= latent_dims
    /\ batch_size >= requested_batch_size

\* C3 witness: process_training_data returned with a raised batch size.
C3_Witness ==
    /\ pc = "returned"
    /\ batch_size > requested_batch_size + 1

\* C4 (as claimed): the batch-size loop does not go on past batch_size > S: at
\* the head of the loop with batch_size > S the condition holds and the loop
\* ends (or the error is reported), so the loop is never there with its
\* condition still unmet.
C4_AdjustmentTerminates ==
    (pc = "adjust" /\ batch_size > num_subjects) =>
        num_subjects % batch_size >= latent_dims

\* C5 (as claimed): every view's train rows and validation rows are centred
\* with the mean of its train rows, the mean stored in dataset_means.
C5_CentredWithTrainMean ==
    pc # "new" =>
        \A i \in 1..Len(args) :
            /\ dataset_means[i] = Mean(Rows(args[i], train_inds))
            /\ dataset_list_train[i] =
                   Centre(Rows(args[i], train_inds), dataset_means[i])
            /\ dataset_list_val[i] =
                   Centre(Rows(args[i], val_inds), dataset_means[i])

\* C6: the train and validation indices are disjoint and cover 0..S-1; the
\* train indices are the first k entries of the shuffled order, k the integer
\* nearest to 0.8 * S, and the validation indices the rest.
C6_Partition ==
    pc # "new" =>
        LET S == num_subjects
            k == Len(train_inds)
        IN  /\ Range(train_inds) \cap Range(val_inds) = {}
            /\ Range(train_inds) \cup Range(val_inds) = 0..(S - 1)
            /\ Len(train_inds) + Len(val_inds) = S
            /\ Abs(10 * k - 8 * S) <= 5
            /\ train_inds = SubSeq(all_inds, 1, k)
            /\ val_inds = SubSeq(all_inds, k + 1, S)

\* C6 witness: a split of a shuffled order that left rows on both sides.
C6_Witness ==
    /\ pc = "returned"
    /\ Len(train_inds) >= 2
    /\ Len(val_inds) >= 1
    /\ all_inds[1] # 0

\* C7 (as claimed): predict_corr in apply mode on a wrapper with no alignment
\* fit raises before any forward pass of the network.
C7_ApplyBeforeFitRaises ==
    (result.call = "predict_corr" /\ ~result.train /\ "cca" \notin attrs) =>
        /\ result.outcome.kind = "raised"
        /\ result.outcome.forwards = 0

\* C8 (as claimed): after fit, predict_corr in apply mode reports the
\* correlations of the supplied views, centred with the stored means, under
\* the alignment fit already has.
C8_ApplyUsesSuppliedViews ==
    (/\ pc = "fitted"
     /\ result.call = "predict_corr"
     /\ ~result.train
     /\ result.outcome.kind = "value") =>
        /\ result.outcome.value.of.input =
               CentredViews(result.views, dataset_means)
        /\ result.outcome.value.by = cca

\* C9 (as claimed): after a completed fit, transform_view with only view A
\* returns the pair (latent_a, None).
C9_TransformAfterFit ==
    (/\ pc = "fitted"
     /\ result.call = "transform_view"
     /\ result.X_new.given
     /\ ~result.Y_new.given) =>
        /\ result.outcome.kind = "value"
        /\ result.outcome.value = [latent_a |-> TRUE, latent_b |-> FALSE]

====
